---- MODULE Spec2Model ----
(***************************************************************************)
(* Workshop LED clock (src/clock.py): NMEA sentence parser, GPS / NTP /     *)
(* local time arbitration, chime and alarm gating.                          *)
(*                                                                          *)
(* Representation.                                                          *)
(*  - A datetime is an integer count of half-seconds since                  *)
(*    2000-01-01T00:00:00; a timedelta is a count of half-seconds.          *)
(*    time.monotonic() readings are half-seconds as well.                   *)
(*  - A Python str is a sequence of one-character strings; a line is the    *)
(*    sequence of its comma-separated fields (line.strip().split(",")).     *)
(*  - Python None is the empty tuple, a present value v is <<v>>.           *)
(***************************************************************************)
EXTENDS Integers, Sequences, FiniteSets, TLC

VARIABLES
    \* FixState (src/clock.py:44-49)
    gps_fix_dt, fix_quality, satellites_used, fix_type, best_snr, last_gps_receive,
    \* ArbiterState (src/clock.py:51-56)
    last_time_source, last_ntp_query, last_ntp_server_used, display_time, last_monotonic,
    \* BoundaryState (src/clock.py:59-68)
    last_chime_hour, last_chime_half, alarm_time, last_alarm_triggered,
    \* devices opened at startup (src/clock.py:73-77, 104-110)
    gps_serial, sounds_loaded,
    \* environment: the reading time.monotonic() returns now
    mono,
    \* main-loop locals and what the last step did
    raw, lines_read, have_gps, elapsed, branch, ntp_tried, ntp_resp,
    chime_hour_played, chime_half_played, alarm_played, ticked,
    \* history of the chime and alarm events
    hist_hour, hist_hour_rearmed, hour_chimes, hist_half, hist_half_rearmed,
    hist_alarm_minute,
    \* web thread (src/clock.py:216-236): where set_alarm stands, the form it
    \* is serving, the alarm file, and the alarms that were set completely
    web_pc, web_form, alarm_file, alarm_configured

fixvars == <<gps_fix_dt, fix_quality, satellites_used, fix_type, best_snr, last_gps_receive>>
arbvars == <<last_time_source, last_ntp_query, last_ntp_server_used, display_time, last_monotonic>>
bndvars == <<last_chime_hour, last_chime_half, alarm_time, last_alarm_triggered>>
devvars == <<gps_serial, sounds_loaded>>
obsvars == <<have_gps, elapsed, branch, ntp_tried, ntp_resp, chime_hour_played,
             chime_half_played, alarm_played, ticked>>
histvars == <<hist_hour, hist_hour_rearmed, hour_chimes, hist_half, hist_half_rearmed,
              hist_alarm_minute>>
webvars == <<web_pc, web_form, alarm_file, alarm_configured>>
vars == <<fixvars, arbvars, bndvars, devvars, mono, raw, lines_read, obsvars, histvars,
          webvars>>

-----------------------------------------------------------------------------
(* Optional values *)
None == <<>>
Some(v) == <<v>>
Val(o) == o[1]

(* Time units: n seconds as a count of half-seconds *)
Sec(n) == 2 * n

-----------------------------------------------------------------------------
(* Configuration (src/clock.py:31-34) *)
UTC_OFFSET_HOURS == -5
NTP_SERVERS == <<"pool.ntp.org", "time.google.com", "time.cloudflare.com">>
NTP_CHECK_INTERVAL == Sec(30)
\* gps_age < 10.0
GPS_MAX_AGE == Sec(10)
\* timedelta(seconds=1.5)
SNAP_THRESHOLD == Sec(3) \div 2
\* for _ in range(6)
LINES_PER_TICK == 6
\* gps_age when nothing was received: 1e9
GPS_AGE_NEVER == Sec(1000000000)

timedelta_hours(h) == h * Sec(3600)

-----------------------------------------------------------------------------
(* Python string primitives on character sequences *)
DigitChars == <<"0", "1", "2", "3", "4", "5", "6", "7", "8", "9">>
IsDigitChar(c) == \E i \in 1..10 : DigitChars[i] = c
DigitVal(c) == (CHOOSE i \in 1..10 : DigitChars[i] = c) - 1

Min(a, b) == IF a <= b THEN a ELSE b

\* s[a:b] with 0 <= a <= b
Slice(s, a, b) == SubSeq(s, a + 1, Min(b, Len(s)))

\* s.startswith(p)
StartsWith(s, p) == Len(s) >= Len(p) /\ SubSeq(s, 1, Len(p)) = p

\* s.isdigit() on ASCII text
isdigit(s) == Len(s) > 0 /\ \A i \in 1..Len(s) : IsDigitChar(s[i])

RECURSIVE DigitsValue(_)
DigitsValue(s) ==
    IF Len(s) = 0 THEN 0
    ELSE 10 * DigitsValue(SubSeq(s, 1, Len(s) - 1)) + DigitVal(s[Len(s)])

IsSpace(c) == c \in {" ", "\t", "\r", "\n"}

RECURSIVE LStrip(_)
LStrip(s) == IF Len(s) > 0 /\ IsSpace(s[1]) THEN LStrip(Tail(s)) ELSE s

RECURSIVE RStrip(_)
RStrip(s) ==
    IF Len(s) > 0 /\ IsSpace(s[Len(s)]) THEN RStrip(SubSeq(s, 1, Len(s) - 1)) ELSE s

\* int(s): surrounding blanks and one sign are accepted; anything else that is
\* not a run of decimal digits raises ValueError (ok = FALSE).
int(s) ==
    LET t == RStrip(LStrip(s))
        signed == Len(t) > 0 /\ t[1] \in {"+", "-"}
        d == IF signed THEN Tail(t) ELSE t
    IN  IF isdigit(d)
        THEN [ok |-> TRUE,
              val |-> IF signed /\ t[1] = "-" THEN 0 - DigitsValue(d) ELSE DigitsValue(d)]
        ELSE [ok |-> FALSE, val |-> 0]

-----------------------------------------------------------------------------
(* datetime arithmetic *)
IsLeap(y) == (y % 4 = 0) /\ ((y % 100 # 0) \/ (y % 400 = 0))

DaysInMonth(y, m) ==
    IF m = 2 THEN (IF IsLeap(y) THEN 29 ELSE 28)
    ELSE IF m \in {4, 6, 9, 11} THEN 30 ELSE 31

RECURSIVE DaysBeforeMonth(_, _)
DaysBeforeMonth(y, m) ==
    IF m <= 1 THEN 0 ELSE DaysBeforeMonth(y, m - 1) + DaysInMonth(y, m - 1)

DaysBeforeYear(y) ==
    (y - 1) * 365 + ((y - 1) \div 4) - ((y - 1) \div 100) + ((y - 1) \div 400)

Ordinal(y, m, d) == DaysBeforeYear(y) + DaysBeforeMonth(y, m) + d

\* datetime(yy, mo, dd, hh, mm, ss): ValueError (ok = FALSE) when a component
\* is out of range.
datetime(yy, mo, dd, hh, mm, ss) ==
    IF /\ yy \in 1..9999
       /\ mo \in 1..12
       /\ dd >= 1
       /\ dd <= DaysInMonth(yy, mo)
       /\ hh \in 0..23
       /\ mm \in 0..59
       /\ ss \in 0..59
    THEN [ok |-> TRUE,
          val |-> Sec((Ordinal(yy, mo, dd) - Ordinal(2000, 1, 1)) * 86400
                      + hh * 3600 + mm * 60 + ss)]
    ELSE [ok |-> FALSE, val |-> 0]

\* fields of a datetime (now.hour, now.minute, now.second)
SecondOfDay(t) == (t \div Sec(1)) % 86400
Hour(t) == SecondOfDay(t) \div 3600
Minute(t) == (SecondOfDay(t) % 3600) \div 60
Second(t) == SecondOfDay(t) % 60

\* datetime.utcfromtimestamp(ts) for a whole number of seconds since 1970
UNIX_2000 == 946684800
utcfromtimestamp(ts) == Sec(ts - UNIX_2000)

-----------------------------------------------------------------------------
(* NMEA parsing (src/clock.py:117-170).  The FixState is passed as a record *)
(* with one field per module-level variable; now is time.monotonic().       *)

FixState == [gps_fix_dt |-> gps_fix_dt, fix_quality |-> fix_quality,
             satellites_used |-> satellites_used, fix_type |-> fix_type,
             best_snr |-> best_snr, last_gps_receive |-> last_gps_receive]

\* line.strip() seen on the split line: blanks leave the head of the first
\* field and the end of the last one
strip(parts) ==
    LET n == Len(parts)
    IN  [i \in 1..n |->
            LET a == IF i = 1 THEN LStrip(parts[i]) ELSE parts[i]
            IN  IF i = n THEN RStrip(a) ELSE a]

\* if fix_quality > 0: last_gps_receive = time.monotonic()
QualityGateOpensOnZero(q) == q >= 0
quality_gate(q) == q > 0

refresh_receive(st, now) ==
    IF quality_gate(st.fix_quality) THEN [st EXCEPT !.last_gps_receive = Some(now)] ELSE st

\* gps_fix_dt = utc_dt + datetime.timedelta(hours=UTC_OFFSET_HOURS)
FixDtWithoutOffset(utc_dt) == utc_dt
fix_dt_of(utc_dt) == utc_dt + timedelta_hours(UTC_OFFSET_HOURS)

\* $GPRMC / $GNRMC branch; parts[k] of the code is parts[k + 1] here
parse_rmc(parts, st, now) ==
    IF Len(parts) < 10 THEN st
    ELSE
      LET status == parts[3]
          raw_time == parts[2]
          raw_date == parts[10]
      IN  IF ~(status = <<"A">> /\ Len(raw_time) > 0 /\ Len(raw_date) > 0) THEN st
          ELSE
            LET hh == int(Slice(raw_time, 0, 2))
                mm == int(Slice(raw_time, 2, 4))
                ss == int(Slice(raw_time, 4, 6))
                dd == int(Slice(raw_date, 0, 2))
                mo == int(Slice(raw_date, 2, 4))
                yy == int(Slice(raw_date, 4, 6))
            IN  IF ~(hh.ok /\ mm.ok /\ ss.ok /\ dd.ok /\ mo.ok /\ yy.ok) THEN st
                ELSE
                  LET utc_dt == datetime(yy.val + 2000, mo.val, dd.val, hh.val, mm.val, ss.val)
                  IN  IF ~utc_dt.ok THEN st
                      ELSE refresh_receive(
                             [st EXCEPT !.gps_fix_dt = Some(fix_dt_of(utc_dt.val))], now)

\* $GPGGA branch: the two assignments take effect one after the other, so a
\* failure on the second leaves the first in place
parse_gga(parts, st, now) ==
    IF Len(parts) < 7 THEN st
    ELSE
      LET q == IF Len(parts[7]) > 0 THEN int(parts[7]) ELSE [ok |-> TRUE, val |-> 0]
      IN  IF ~q.ok THEN st
          ELSE
            LET st1 == [st EXCEPT !.fix_quality = q.val]
            IN  IF Len(parts) < 8 THEN st1
                ELSE
                  LET n == IF Len(parts[8]) > 0 THEN int(parts[8])
                           ELSE [ok |-> TRUE, val |-> 0]
                  IN  IF ~n.ok THEN st1
                      ELSE refresh_receive([st1 EXCEPT !.satellites_used = n.val], now)

\* {"1":"NO FIX","2":"2D FIX","3":"3D FIX"}.get(mode, "NO FIX")
fix_type_of(mode) ==
    IF mode = <<"2">> THEN "2D FIX"
    ELSE IF mode = <<"3">> THEN "3D FIX"
    ELSE "NO FIX"

\* $GPGSA branch
parse_gsa(parts, st, now) ==
    IF Len(parts) < 3 THEN st
    ELSE refresh_receive([st EXCEPT !.fix_type = fix_type_of(parts[3])], now)

\* for idx in (7,11,15,19): the running maximum over the numeric fields
RECURSIVE SnrScanKeepsLast(_, _, _)
SnrScanKeepsLast(parts, idxs, best) ==
    IF Len(idxs) = 0 THEN best
    ELSE
      LET idx == Head(idxs)
          present == Len(parts) > idx /\ isdigit(parts[idx + 1])
      IN  SnrScanKeepsLast(parts, Tail(idxs),
                           IF present THEN int(parts[idx + 1]).val ELSE best)

RECURSIVE snr_scan(_, _, _)
snr_scan(parts, idxs, best) ==
    IF Len(idxs) = 0 THEN best
    ELSE
      LET idx == Head(idxs)
          present == Len(parts) > idx /\ isdigit(parts[idx + 1])
          snr_val == IF present THEN int(parts[idx + 1]).val ELSE 0
      IN  snr_scan(parts, Tail(idxs),
                   IF present /\ snr_val > best THEN snr_val ELSE best)

\* $GPGSV branch
parse_gsv(parts, st, now) ==
    refresh_receive([st EXCEPT !.best_snr = snr_scan(parts, <<7, 11, 15, 19>>, st.best_snr)],
                    now)

TagGPRMC == <<"$", "G", "P", "R", "M", "C">>
TagGNRMC == <<"$", "G", "N", "R", "M", "C">>
TagGPGGA == <<"$", "G", "P", "G", "G", "A">>
TagGPGSA == <<"$", "G", "P", "G", "S", "A">>
TagGPGSV == <<"$", "G", "P", "G", "S", "V">>

\* parse_nmea_line(line): the FixState after the call
parse_nmea_line(line, st, now) ==
    LET parts == strip(line)
    IN  IF parts = << <<>> >> THEN st
        ELSE IF StartsWith(parts[1], TagGPRMC) \/ StartsWith(parts[1], TagGNRMC)
             THEN parse_rmc(parts, st, now)
        ELSE IF StartsWith(parts[1], TagGPGGA) THEN parse_gga(parts, st, now)
        ELSE IF StartsWith(parts[1], TagGPGSA) THEN parse_gsa(parts, st, now)
        ELSE IF StartsWith(parts[1], TagGPGSV) THEN parse_gsv(parts, st, now)
        ELSE st

-----------------------------------------------------------------------------
(* NTP helper (src/clock.py:175-185).  resp[i] is what client.request gives *)
(* for NTP_SERVERS[i]: None when it raises, <<tx_time>> when it answers.    *)

RECURSIVE ntp_scan(_, _, _)
ntp_scan(resp, i, used) ==
    IF i > Len(NTP_SERVERS)
    THEN [dt |-> None, status |-> <<"System time (offline)">>, used |-> used,
          tried |-> SubSeq(NTP_SERVERS, 1, i - 1)]
    ELSE IF resp[i] # None
    THEN [dt |-> Some(utcfromtimestamp(Val(resp[i]))),
          status |-> <<"NTP: ", NTP_SERVERS[i]>>,
          used |-> Some(NTP_SERVERS[i]),
          tried |-> SubSeq(NTP_SERVERS, 1, i)]
    ELSE ntp_scan(resp, i + 1, used)

\* query_ntp_once(): (dt, status), the new last_ntp_server_used, the servers contacted
QueryFromSecondServer(resp, used) == ntp_scan(resp, 2, used)
query_ntp_once(resp, used) == ntp_scan(resp, 1, used)

-----------------------------------------------------------------------------
(* Main loop, time update (src/clock.py:257-289) *)

\* Python truth value of an optional number
truthy(o) == o # None /\ Val(o) # 0

gps_age_of(now, last_rx) == IF truthy(last_rx) THEN now - Val(last_rx) ELSE GPS_AGE_NEVER

HaveGpsAtTenSeconds(fix_dt, quality, gps_age) ==
    fix_dt # None /\ quality > 0 /\ gps_age <= GPS_MAX_AGE
have_gps_of(fix_dt, quality, gps_age) ==
    fix_dt # None /\ quality > 0 /\ gps_age < GPS_MAX_AGE

\* gps_fix_dt > display_time + datetime.timedelta(seconds=1.5)
SnapEitherWay(fix_dt, disp) ==
    fix_dt > disp + SNAP_THRESHOLD \/ fix_dt < disp - SNAP_THRESHOLD
SnapAboveThreeSeconds(fix_dt, disp) == fix_dt > disp + Sec(3)
SnapAtThreshold(fix_dt, disp) == fix_dt >= disp + SNAP_THRESHOLD
SnapAboveTwoSeconds(fix_dt, disp) == fix_dt > disp + Sec(2)
snap_condition(fix_dt, disp) == fix_dt > disp + SNAP_THRESHOLD

\* (now_now - last_ntp_query) > NTP_CHECK_INTERVAL or last_ntp_server_used is None
NtpDueOnlyByInterval(now_now, last_query, used) ==
    (now_now - last_query) > NTP_CHECK_INTERVAL
NtpDueAtThirtySeconds(now_now, last_query, used) ==
    (now_now - last_query) >= NTP_CHECK_INTERVAL \/ used = None
ntp_due(now_now, last_query, used) ==
    (now_now - last_query) > NTP_CHECK_INTERVAL \/ used = None

gps_label(ftype, sats, snr) == <<"GPS: ", ftype, " | Sats:", sats, " | SNR:", snr, " dB">>

\* a time update that asks the servers before it looks at have_gps
TimeUpdateQueryingFirst(now, sysnow, resp) ==
    LET el == now - last_monotonic
        hg == have_gps_of(gps_fix_dt, fix_quality, gps_age_of(now, last_gps_receive))
        q == query_ntp_once(resp, last_ntp_server_used)
    IN  [display_time |-> Some(Val(display_time) + el),
         last_time_source |-> IF hg THEN gps_label(fix_type, satellites_used, best_snr)
                              ELSE q.status,
         last_ntp_query |-> now, last_ntp_server_used |-> q.used,
         elapsed |-> el, have_gps |-> hg, ntp_tried |-> Some(q.tried),
         branch |-> IF hg THEN "gps_glide" ELSE "ntp_fail"]

\* The arbiter's step: from the state before the tick and the tick's inputs
\* (now: time.monotonic(), sysnow: datetime.now(), resp: the servers' answers)
\* to the ArbiterState after it, with the branch taken.
time_update(now, sysnow, resp) ==
    LET el == now - last_monotonic
        gps_age == gps_age_of(now, last_gps_receive)
        hg == have_gps_of(gps_fix_dt, fix_quality, gps_age)
        base == [display_time |-> display_time, last_time_source |-> last_time_source,
                 last_ntp_query |-> last_ntp_query,
                 last_ntp_server_used |-> last_ntp_server_used,
                 elapsed |-> el, have_gps |-> hg, ntp_tried |-> None, branch |-> "none"]
    IN  IF hg
        THEN
          LET label == gps_label(fix_type, satellites_used, best_snr)
          IN  IF display_time = None
              THEN [base EXCEPT !.display_time = gps_fix_dt, !.last_time_source = label,
                                !.branch = "gps_first"]
              ELSE IF snap_condition(Val(gps_fix_dt), Val(display_time))
              THEN [base EXCEPT !.display_time = gps_fix_dt, !.last_time_source = label,
                                !.branch = "gps_snap"]
              ELSE [base EXCEPT !.display_time = Some(Val(display_time) + el),
                                !.last_time_source = label, !.branch = "gps_glide"]
        ELSE
          IF ntp_due(now, last_ntp_query, last_ntp_server_used)
          THEN
            LET q == query_ntp_once(resp, last_ntp_server_used)
                queried == [base EXCEPT !.last_ntp_query = now,
                                        !.last_ntp_server_used = q.used,
                                        !.ntp_tried = Some(q.tried)]
            IN  IF q.dt # None
                THEN [queried EXCEPT
                        !.display_time = Some(Val(q.dt) + timedelta_hours(UTC_OFFSET_HOURS)),
                        !.last_time_source = q.status, !.branch = "ntp_ok"]
                ELSE IF display_time = None
                THEN [queried EXCEPT !.display_time = Some(sysnow),
                                     !.last_time_source = <<"System time (offline)">>,
                                     !.branch = "ntp_fail_first"]
                ELSE [queried EXCEPT !.display_time = Some(Val(display_time) + el),
                                     !.last_time_source = <<"System time (offline)">>,
                                     !.branch = "ntp_fail"]
          ELSE [base EXCEPT !.display_time = Some(Val(display_time) + el),
                            !.branch = "throttled"]

TickBranches == {"gps_first", "gps_snap", "gps_glide", "ntp_ok", "ntp_fail_first",
                 "ntp_fail", "throttled"}

-----------------------------------------------------------------------------
(* Main loop, chimes and alarm (src/clock.py:314-334) *)

\* if chime_hour and last_chime_hour != hour and minute == 0
HourChimeUngated(now, last_hour) == sounds_loaded /\ Minute(now) = 0
hour_chime_due(now, last_hour) ==
    sounds_loaded /\ last_hour # Some(Hour(now)) /\ Minute(now) = 0

\* if chime_half and last_chime_half != hour and minute == 30
half_chime_due(now, last_half) ==
    sounds_loaded /\ last_half # Some(Hour(now)) /\ Minute(now) = 30

\* if minute not in (0, 30)
RearmOnHalfHour(now) == Minute(now) # 0
chime_rearm(now) == Minute(now) \notin {0, 30}

\* the alarm's three nested conditions
alarm_due(now, alarm, last_triggered) ==
    /\ alarm.hour # None /\ alarm.minute # None
    /\ Some(Hour(now)) = alarm.hour /\ Some(Minute(now)) = alarm.minute /\ Second(now) = 0
    /\ last_triggered # Some(<<Hour(now), Minute(now)>>)

-----------------------------------------------------------------------------
(* Actions *)

\* the reading of time.monotonic() at startup, in half-seconds
MonoStart == 1

\* One pass of "for _ in range(6)": a line arrives and is parsed.
ReadLine(line) ==
    /\ gps_serial
    /\ lines_read < LINES_PER_TICK
    \* if not raw: break
    /\ line # << <<>> >>
    /\ LET st == parse_nmea_line(line, FixState, mono)
       IN  /\ gps_fix_dt' = st.gps_fix_dt
           /\ fix_quality' = st.fix_quality
           /\ satellites_used' = st.satellites_used
           /\ fix_type' = st.fix_type
           /\ best_snr' = st.best_snr
           /\ last_gps_receive' = st.last_gps_receive
    /\ raw' = line
    /\ lines_read' = lines_read + 1
    /\ branch' = "read"
    /\ UNCHANGED <<arbvars, bndvars, devvars, mono, have_gps, elapsed, ntp_tried, ntp_resp,
                   chime_hour_played, chime_half_played, alarm_played, ticked, histvars,
                   webvars>>

\* What a tick adds to the history: the hour of the latest hour-chime and
\* whether a tick with a minute outside {0, 30} was seen since, the number of
\* hour-chimes so far (counted up to 2), the same for the half-chime, and the
\* absolute minute of the latest tick that showed the configured alarm minute
\* at second 0.
AbsMinute(t) == t \div Sec(60)
OnAlarmSecond(now, alarm) ==
    /\ alarm.hour = Some(Hour(now)) /\ alarm.minute = Some(Minute(now))
    /\ Second(now) = 0
History(now, hourDue, halfDue) ==
    /\ hist_hour' = IF hourDue THEN Some(Hour(now)) ELSE hist_hour
    /\ hist_hour_rearmed' = IF Minute(now) \notin {0, 30} THEN TRUE
                            ELSE IF hourDue THEN FALSE ELSE hist_hour_rearmed
    /\ hour_chimes' = IF hourDue THEN Min(hour_chimes + 1, 2) ELSE hour_chimes
    /\ hist_half' = IF halfDue THEN Some(Hour(now)) ELSE hist_half
    /\ hist_half_rearmed' = IF Minute(now) \notin {0, 30} THEN TRUE
                            ELSE IF halfDue THEN FALSE ELSE hist_half_rearmed
    /\ hist_alarm_minute' = IF OnAlarmSecond(now, alarm_time) THEN Some(AbsMinute(now))
                            ELSE hist_alarm_minute

\* The rest of one loop iteration: time update, chimes, alarm.
Tick(sysnow, resp) ==
    LET u == time_update(mono, sysnow, resp)
        now == Val(u.display_time)
        hourDue == hour_chime_due(now, last_chime_hour)
        halfDue == half_chime_due(now, last_chime_half)
        alarmDue == alarm_due(now, alarm_time, last_alarm_triggered)
    IN  /\ last_monotonic' = mono
        /\ display_time' = u.display_time
        /\ last_time_source' = u.last_time_source
        /\ last_ntp_query' = u.last_ntp_query
        /\ last_ntp_server_used' = u.last_ntp_server_used
        /\ have_gps' = u.have_gps
        /\ elapsed' = u.elapsed
        /\ ntp_tried' = u.ntp_tried
        /\ ntp_resp' = IF u.ntp_tried # None THEN Some(resp) ELSE None
        /\ branch' = u.branch
        /\ chime_hour_played' = hourDue
        /\ chime_half_played' = halfDue
        /\ last_chime_hour' = IF chime_rearm(now) THEN None
                              ELSE IF hourDue THEN Some(Hour(now)) ELSE last_chime_hour
        /\ last_chime_half' = IF chime_rearm(now) THEN None
                              ELSE IF halfDue THEN Some(Hour(now)) ELSE last_chime_half
        /\ alarm_played' = alarmDue
        /\ last_alarm_triggered' = IF alarmDue THEN Some(<<Hour(now), Minute(now)>>)
                                   ELSE last_alarm_triggered
        /\ lines_read' = 0
        /\ ticked' = TRUE
        /\ History(now, hourDue, halfDue)
        /\ UNCHANGED <<fixvars, alarm_time, devvars, mono, raw, webvars>>

\* time.monotonic() moves on by d between two steps of the loop, within
\* maxSpan of the reading at startup
Advance(d, maxSpan) ==
    /\ mono + d <= MonoStart + maxSpan
    /\ mono' = mono + d
    /\ branch' = "wait"
    /\ UNCHANGED <<fixvars, arbvars, bndvars, devvars, raw, lines_read, have_gps, elapsed,
                   ntp_tried, ntp_resp, chime_hour_played, chime_half_played, alarm_played,
                   ticked, histvars, webvars>>

\* set_alarm (src/clock.py:216-223) runs on the web server's thread, which the
\* interpreter may suspend between any two statements.  Its first statement
\* stores the form's hour ...
SetAlarmHour(form) ==
    /\ web_pc = "idle"
    /\ LET h == int(form.hour)
       IN  IF h.ok
           THEN /\ alarm_time' = [alarm_time EXCEPT !.hour = Some(h.val)]
                /\ web_pc' = "minute"
                /\ web_form' = Some(form)
           ELSE UNCHANGED <<alarm_time, web_pc, web_form>>
    /\ branch' = "set_alarm"
    /\ UNCHANGED <<fixvars, arbvars, last_chime_hour, last_chime_half, last_alarm_triggered,
                   devvars, mono, raw, lines_read, have_gps, elapsed, ntp_tried, ntp_resp,
                   chime_hour_played, chime_half_played, alarm_played, ticked, histvars,
                   alarm_file, alarm_configured>>

\* ... and the rest stores the form's minute and writes the alarm file; a
\* minute that is not a number ends the request with the hour already stored.
SetAlarmMinute ==
    /\ web_pc = "minute"
    /\ LET m == int(Val(web_form).minute)
       IN  IF m.ok
           THEN /\ alarm_time' = [alarm_time EXCEPT !.minute = Some(m.val)]
                /\ alarm_file' = alarm_time'
                /\ alarm_configured' = alarm_configured \cup {alarm_time'}
           ELSE UNCHANGED <<alarm_time, alarm_file, alarm_configured>>
    /\ web_pc' = "idle"
    /\ web_form' = None
    /\ branch' = "set_alarm"
    /\ UNCHANGED <<fixvars, arbvars, last_chime_hour, last_chime_half, last_alarm_triggered,
                   devvars, mono, raw, lines_read, have_gps, elapsed, ntp_tried, ntp_resp,
                   chime_hour_played, chime_half_played, alarm_played, ticked, histvars>>

\* Module state after the top-level initialisation (src/clock.py:44-77, 104-110)
Startup(sysnow, mono0, alarm0, serial, sounds) ==
    /\ gps_fix_dt = None
    /\ fix_quality = 0
    /\ satellites_used = 0
    /\ fix_type = "NO FIX"
    /\ best_snr = 0
    /\ last_gps_receive = None
    /\ last_time_source = <<"Startup">>
    /\ last_ntp_query = 0
    /\ last_ntp_server_used = None
    /\ display_time = Some(sysnow)
    /\ last_monotonic = mono0
    /\ last_chime_hour = None
    /\ last_chime_half = None
    /\ alarm_time = alarm0
    /\ last_alarm_triggered = None
    /\ gps_serial = serial
    /\ sounds_loaded = sounds
    /\ mono = mono0
    /\ raw = <<>>
    /\ lines_read = 0
    /\ have_gps = FALSE
    /\ elapsed = 0
    /\ branch = "startup"
    /\ ntp_tried = None
    /\ ntp_resp = None
    /\ chime_hour_played = FALSE
    /\ chime_half_played = FALSE
    /\ alarm_played = FALSE
    /\ ticked = FALSE
    /\ hist_hour = None
    /\ hist_hour_rearmed = FALSE
    /\ hour_chimes = 0
    /\ hist_half = None
    /\ hist_half_rearmed = FALSE
    /\ hist_alarm_minute = None
    /\ web_pc = "idle"
    /\ web_form = None
    /\ alarm_file = alarm0
    /\ alarm_configured = {alarm0}

-----------------------------------------------------------------------------
(* Inputs: sentences, server answers, wall-clock readings *)

E == <<>>
D2(n) == <<DigitChars[(n \div 10) + 1], DigitChars[(n % 10) + 1]>>
HHMMSS(h, m, sec) == D2(h) \o D2(m) \o D2(sec)
DDMMYY(d, m, y) == D2(d) \o D2(m) \o D2(y)

Rmc(tag, time, status, date) == <<tag, time, status, E, E, E, E, E, E, date>>
Gga(quality, sats) == <<TagGPGGA, E, E, E, E, E, quality, sats>>
Gsa(mode) == <<TagGPGSA, <<"A">>, mode>>
Gsv(s1, s2, s3, s4) ==
    <<TagGPGSV, E, E, E, E, E, E, s1, E, E, E, s2, E, E, E, s3, E, E, E, s4>>

\* local wall-clock value of a UTC date and time, and the Unix time of one
Local(y, m, d, hh, mm, ss) ==
    datetime(y, m, d, hh, mm, ss).val + timedelta_hours(UTC_OFFSET_HOURS)
UnixTime(y, m, d, hh, mm, ss) == UNIX_2000 + (datetime(y, m, d, hh, mm, ss).val \div Sec(1))

AllFail == <<None, None, None>>
FirstAnswers(ts) == <<Some(ts), None, None>>

NoAlarm == [hour |-> None, minute |-> None]
AlarmAt(h, m) == [hour |-> Some(h), minute |-> Some(m)]

\* datetime.now() for the seed branch of the time update
SysNow == Local(2024, 1, 1, 11, 59, 50)

-----------------------------------------------------------------------------
(* Specification of the arbiter: a receiver that gains and loses its fix,   *)
(* a server that answers or not, ticks 0 s or 5 s apart.                    *)

\* monotonic time the arbiter is followed for, in half-seconds
MaxSpan == 30

ArbLines ==
    { Rmc(TagGPRMC, HHMMSS(12, 0, 0), <<"A">>, DDMMYY(1, 1, 24)),
      Gga(<<"1">>, <<"0", "7">>),
      Gga(<<"0">>, E) }

ArbAnswers == { AllFail, FirstAnswers(UnixTime(2024, 1, 1, 11, 59, 55)) }

ArbSteps == {Sec(5)}

Init ==
    \E sysnow \in {Local(2024, 1, 1, 11, 59, 57), Local(2024, 1, 1, 12, 0, 1)} :
        Startup(sysnow, MonoStart, NoAlarm, TRUE, TRUE)

Read == \E line \in ArbLines : ReadLine(line)
TickOnce == \E resp \in ArbAnswers : Tick(SysNow, resp)
Wait == \E d \in ArbSteps : Advance(d, MaxSpan)

Next == Read \/ TickOnce \/ Wait

Spec == Init /\ [][Next]_vars

-----------------------------------------------------------------------------
(* Claims checked under Spec *)

StartsWithGPS(label) == label[1] = "GPS: "
IsTick(b) == b \in TickBranches

ValidRmc == Rmc(TagGPRMC, HHMMSS(12, 0, 0), <<"A">>, DDMMYY(1, 1, 24))
\* 2024-01-01T07:00:00, counted by hand: 8766 days after 2000-01-01, 7 hours
Expected0700 == 8766 * Sec(86400) + Sec(7 * 3600)

C2_QueriesThirtySecondsApart ==
    [][(IsTick(branch') /\ ntp_tried' # None /\ last_ntp_query # 0)
        => mono' - last_ntp_query >= Sec(30)]_vars

\* C3 (as stated): the displayed time is defined after every tick and no
\* tick moves it backward.
C3_NeverBackward ==
    [][IsTick(branch')
        => (display_time' # None /\ Val(display_time') >= Val(display_time))]_vars

\* C3 (amended): the displayed time is defined after every tick, and no tick
\* moves it backward except a tick on which a server answers, which sets it
\* to the server's time plus the offset.
C3_BackwardOnlyOnNtpAnswer ==
    [][IsTick(branch')
        => (/\ display_time' # None
            /\ branch' # "ntp_ok" => Val(display_time') >= Val(display_time))]_vars

C3_Witness ==
    /\ branch = "gps_glide" /\ elapsed > 0
    /\ Val(gps_fix_dt) < Val(display_time) - Sec(2)

\* C4 (as stated): after every tick the label starts with "GPS:" exactly when
\* the tick had have_gps true.
C4_LabelMatchesSource ==
    IsTick(branch) => (have_gps <=> StartsWithGPS(last_time_source))

\* C8: a tick has have_gps true only if a fix time is stored, the quality is
\* positive and a sentence refreshed last_gps_receive less than 10 s before
\* the tick; with last_gps_receive absent or 10 s or more old the tick takes
\* a non-GPS branch even when a fix time is stored.
C8_StalenessGate ==
    IsTick(branch) =>
        /\ have_gps =>
              /\ gps_fix_dt # None
              /\ fix_quality > 0
              /\ last_gps_receive # None
              /\ mono - Val(last_gps_receive) < Sec(10)
        /\ (last_gps_receive = None \/ mono - Val(last_gps_receive) >= Sec(10)) =>
              /\ ~have_gps
              /\ branch \in {"ntp_ok", "ntp_fail", "ntp_fail_first", "throttled"}

C8_Witness ==
    /\ IsTick(branch) /\ ~have_gps
    /\ gps_fix_dt # None /\ fix_quality > 0
    /\ last_gps_receive # None /\ mono - Val(last_gps_receive) = Sec(10)

-----------------------------------------------------------------------------
(* Specification of the parser: up to six sentences of one read pass, well  *)
(* formed and malformed, with the monotonic clock moving between them.      *)

MaxSpanParser == 2

TagGNGGA == <<"$", "G", "N", "G", "G", "A">>
Gsv30 == Gsv(<<"3", "0">>, E, E, E)

WellFormedLines ==
    { ValidRmc, Gga(<<"1">>, <<"0", "7">>), Gga(<<"0">>, E), Gsa(<<"3">>), Gsv30 }

MalformedLines ==
    { \* a blank line
      << <<"\r", "\n">> >>,
      \* a tag the parser does not know
      <<TagGNGGA, E, E, E, E, E, <<"2">>, <<"0", "9">>>>,
      \* RMC cut before its date; RMC with a non-numeric time; RMC on day 32
      SubSeq(Rmc(TagGPRMC, HHMMSS(12, 0, 8), <<"A">>, DDMMYY(1, 1, 24)), 1, 9),
      Rmc(TagGNRMC, <<"1", "2", "x", "x", "0", "8">>, <<"A">>, DDMMYY(1, 1, 24)),
      Rmc(TagGPRMC, HHMMSS(12, 0, 8), <<"A">>, DDMMYY(32, 1, 24)),
      \* GGA with a non-numeric quality; GGA with a non-numeric satellite count
      Gga(<<"x">>, <<"0", "9">>),
      Gga(<<"1">>, <<"x">>),
      \* GSA cut before its mode; GSA with a mode outside 1..3
      <<TagGPGSA, <<"A">>>>,
      Gsa(<<"9">>),
      \* GSV with a non-numeric signal value
      Gsv(<<"x">>, E, E, E) }

ParserLines == WellFormedLines \cup MalformedLines

InitParser == Startup(SysNow, MonoStart, NoAlarm, TRUE, TRUE)

ReadParser == \E line \in ParserLines : ReadLine(line)
WaitParser == Advance(Sec(1), MaxSpanParser)

NextParser == ReadParser \/ WaitParser

SpecParser == InitParser /\ [][NextParser]_vars

-----------------------------------------------------------------------------
(* Claims checked under SpecParser *)

\* C9: whatever the sentence kind, a parsed line changes last_gps_receive
\* only if fix_quality > 0 holds after the line's own updates, and then sets
\* it to the current monotonic reading.
C9_QualityGate ==
    [][(branch' = "read" /\ last_gps_receive' # last_gps_receive)
        => (fix_quality' > 0 /\ last_gps_receive' = Some(mono))]_vars

C9_Witness ==
    /\ branch = "read" /\ raw = Gsa(<<"3">>)
    /\ fix_type = "3D FIX" /\ fix_quality = 0
    /\ gps_fix_dt # None
    /\ last_gps_receive # None /\ Val(last_gps_receive) < mono

\* what the line's own fields say, read off the sentence layout of the design
IsKind(line, tag) == Len(line) > 0 /\ StartsWith(line[1], tag)
FieldIsNumber(line, k) == Len(line) > k /\ isdigit(line[k + 1])
GgaQualityValid(line) == IsKind(line, TagGPGGA) /\ FieldIsNumber(line, 6)
GgaSatsValid(line) == IsKind(line, TagGPGGA) /\ FieldIsNumber(line, 7)
GsaModeValid(line) ==
    IsKind(line, TagGPGSA) /\ Len(line) > 2 /\ line[3] \in {<<"1">>, <<"2">>, <<"3">>}
GsvSignalValid(line) ==
    IsKind(line, TagGPGSV) /\ \E k \in {7, 11, 15, 19} : FieldIsNumber(line, k)

\* C10 (as stated): a malformed line changes a FixState field only when the
\* line carries that field, present and valid; an invalid field neither
\* overwrites the stored value nor refreshes last_gps_receive.
C10_MalformedLeavesStateAlone ==
    [][(branch' = "read" /\ raw' \in MalformedLines)
        => (/\ gps_fix_dt' = gps_fix_dt
            /\ fix_quality' # fix_quality => GgaQualityValid(raw')
            /\ satellites_used' # satellites_used => GgaSatsValid(raw')
            /\ fix_type' # fix_type => GsaModeValid(raw')
            /\ best_snr' # best_snr => GsvSignalValid(raw')
            /\ last_gps_receive' # last_gps_receive
                 => (GsaModeValid(raw') \/ IsKind(raw', TagGPGSV)))]_vars

-----------------------------------------------------------------------------
(* Specification of the boundary watcher: an alarm at 07:00, a displayed    *)
(* time that starts at 06:59:59.5 and glides in half-second ticks, that     *)
(* a server sets to 07:30 and the receiver snaps to 08:00, to 08:30 or to   *)
(* 07:00 of the next day.                                                   *)

MaxSpanBoundary == 1

BoundaryLines ==
    { Gga(<<"1">>, <<"0", "7">>),
      Rmc(TagGPRMC, HHMMSS(13, 0, 0), <<"A">>, DDMMYY(1, 1, 24)),
      Rmc(TagGPRMC, HHMMSS(13, 30, 0), <<"A">>, DDMMYY(1, 1, 24)),
      Rmc(TagGPRMC, HHMMSS(12, 0, 0), <<"A">>, DDMMYY(2, 1, 24)) }

BoundaryAnswers == { AllFail, FirstAnswers(UnixTime(2024, 1, 1, 12, 30, 0)) }

InitBoundary ==
    Startup(Local(2024, 1, 1, 11, 59, 59) + 1, MonoStart, AlarmAt(7, 0), TRUE, TRUE)

ReadBoundary == \E line \in BoundaryLines : ReadLine(line)
TickBoundary == \E resp \in BoundaryAnswers : Tick(SysNow, resp)
WaitBoundary == Advance(1, MaxSpanBoundary)

NextBoundary == ReadBoundary \/ TickBoundary \/ WaitBoundary

SpecBoundary == InitBoundary /\ [][NextBoundary]_vars

-----------------------------------------------------------------------------
(* Claims checked under SpecBoundary *)

Shown == Val(display_time)
ShownNext == Val(display_time')

\* C5 (as stated): the alarm fires on a tick exactly when the tick shows the
\* configured hour and minute at second 0 and no earlier tick showed second 0
\* of that same occurrence of the minute, the same clock time of a later day
\* being a new occurrence.
C5_AlarmOncePerOccurrence ==
    [][IsTick(branch')
        => (alarm_played' <=>
              /\ OnAlarmSecond(ShownNext, alarm_time)
              /\ hist_alarm_minute # Some(AbsMinute(ShownNext)))]_vars

\* the tick continues a run of ticks at minute 0 of one hour
ContinuesHourRun == ticked /\ Minute(Shown) = 0 /\ Hour(Shown) = Hour(ShownNext)

\* C6 (as stated): among consecutive ticks at minute 0 of one hour the
\* hour-chime fires on the first one and on no other, whatever came before.
C6_HourChimeOncePerRun ==
    [][(IsTick(branch') /\ sounds_loaded /\ Minute(ShownNext) = 0)
        => (chime_hour_played' <=> ~ContinuesHourRun)]_vars

\* C6 (amended): among consecutive ticks at minute 0 of one hour H the
\* hour-chime fires at most once and only on the first one.  It fires there
\* unless the tick before showed minute 30 and the latest hour-chime was for
\* the same hour H with no tick outside minutes {0, 30} since; then the run
\* passes without a chime.
C6_HourChimeOncePerRunUnlessFromHalfHour ==
    [][(IsTick(branch') /\ sounds_loaded /\ Minute(ShownNext) = 0)
        => IF ContinuesHourRun THEN ~chime_hour_played'
           ELSE IF ticked /\ Minute(Shown) = 30
           THEN chime_hour_played' <=>
                  ~(hist_hour = Some(Hour(ShownNext)) /\ ~hist_hour_rearmed)
           ELSE chime_hour_played']_vars

C6_Witness ==
    /\ IsTick(branch) /\ sounds_loaded /\ Minute(Shown) = 0
    /\ ~chime_hour_played
    /\ hist_hour = Some(Hour(Shown)) /\ ~hist_hour_rearmed
    /\ last_chime_half # None /\ branch = "gps_snap"

\* C7 (as stated): a chime that has fired does not fire again before a tick
\* has shown a minute outside {0, 30}.
C7_RefireOnlyAfterRearm ==
    [][IsTick(branch')
        => (/\ (chime_hour_played' /\ hist_hour # None) => hist_hour_rearmed
            /\ (chime_half_played' /\ hist_half # None) => hist_half_rearmed)]_vars

\* C7 (amended): a chime that has fired for hour H does not fire again for
\* the same hour H before a tick has shown a minute outside {0, 30}; between
\* two successive firings of the same chime there is such a tick or the hour
\* has changed.
C7_RefireOnlyAfterRearmOrHourChange ==
    [][IsTick(branch')
        => (/\ (chime_hour_played' /\ hist_hour # None)
                 => (hist_hour_rearmed \/ hist_hour # Some(Hour(ShownNext)))
            /\ (chime_half_played' /\ hist_half # None)
                 => (hist_half_rearmed \/ hist_half # Some(Hour(ShownNext))))]_vars

C7_Witness ==
    /\ IsTick(branch) /\ chime_hour_played /\ hour_chimes = 2
    /\ last_chime_half # None

-----------------------------------------------------------------------------
(* Specification of the GPS branch: a receiver with a fix at 07:00:00 and   *)
(* then 07:00:02 local, a displayed time that starts 2 s, 1.5 s or 0.5 s    *)
(* behind the first fix or 10 s ahead of it, ticks half a second or a       *)
(* second apart, no server answering.                                       *)

MaxSpanGlide == 3

LaterRmc == Rmc(TagGPRMC, HHMMSS(12, 0, 2), <<"A">>, DDMMYY(1, 1, 24))

GlideLines == { Gga(<<"1">>, <<"0", "7">>), ValidRmc, LaterRmc }

GlideStarts ==
    { Local(2024, 1, 1, 11, 59, 58),
      Local(2024, 1, 1, 11, 59, 58) + 1,
      Local(2024, 1, 1, 11, 59, 59) + 1,
      Local(2024, 1, 1, 12, 0, 10) }

GlideSteps == {1, Sec(1)}

InitGlide == \E sysnow \in GlideStarts : Startup(sysnow, MonoStart, NoAlarm, TRUE, TRUE)

ReadGlide == \E line \in GlideLines : ReadLine(line)
TickGlide == Tick(SysNow, AllFail)
WaitGlide == \E d \in GlideSteps : Advance(d, MaxSpanGlide)

NextGlide == ReadGlide \/ TickGlide \/ WaitGlide

SpecGlide == InitGlide /\ [][NextGlide]_vars

-----------------------------------------------------------------------------
(* Claims checked under SpecGlide *)

\* C11: on a tick with have_gps true and the displayed time defined, a fix
\* more than 1.5 s ahead of the displayed time becomes the displayed time
\* exactly, whatever the elapsed time.
C11_SnapRule ==
    [][(/\ IsTick(branch') /\ have_gps' /\ display_time # None
        /\ Val(gps_fix_dt) > Val(display_time) + Sec(1) + 1)
        => display_time' = gps_fix_dt]_vars

\* first tick, 1 s after start-up, displayed time 2 s behind the fix
C11_Witness ==
    /\ branch = "gps_snap" /\ have_gps /\ elapsed = Sec(1)
    /\ last_ntp_query = 0
    /\ gps_fix_dt = Some(Expected0700)
    /\ display_time = Some(Expected0700)

\* C12: on a tick with have_gps true and the displayed time defined, a fix
\* at most 1.5 s ahead of the displayed time, or behind it, leaves the
\* displayed time to advance by the elapsed time, whatever the fix says.
C12_GlideRule ==
    [][(/\ IsTick(branch') /\ have_gps' /\ display_time # None
        /\ Val(gps_fix_dt) <= Val(display_time) + Sec(1) + 1)
        => display_time' = Some(Val(display_time) + (mono - last_monotonic))]_vars

\* first tick, 1 s after start-up, displayed time 0.5 s behind the fix
C12_Witness ==
    /\ branch = "gps_glide" /\ have_gps /\ elapsed = Sec(1)
    /\ last_ntp_query = 0
    /\ gps_fix_dt = Some(Expected0700)
    /\ display_time = Some(Expected0700 - 1 + Sec(1))

\* C19 (as stated): after every tick with have_gps true the displayed time
\* is at most 1.5 s behind the fix and at most 1.5 s plus the time since the
\* fix ahead of it (the time since the fix is at most the time since
\* start-up).
C19_WithinThresholdBothWays ==
    (IsTick(branch) /\ have_gps) =>
        /\ Val(display_time) >= Val(gps_fix_dt) - (Sec(1) + 1)
        /\ Val(display_time) <= Val(gps_fix_dt) + (Sec(1) + 1) + (mono - MonoStart)

\* C19 (amended): after every tick with have_gps true the displayed time is
\* at most 1.5 s behind the fix; how far ahead of the fix it is has no bound.
C19_NeverMoreThanThresholdBehind ==
    (IsTick(branch) /\ have_gps) =>
        Val(display_time) >= Val(gps_fix_dt) - (Sec(1) + 1)

\* a glide that leaves the displayed time exactly 1.5 s behind the fix
C19_Witness ==
    /\ branch = "gps_glide" /\ have_gps
    /\ Val(display_time) = Val(gps_fix_dt) - (Sec(1) + 1)

-----------------------------------------------------------------------------
(* Specification of the fallback: a serial port that is there or not, a     *)
(* receiver that gets its fix, servers of which the first, the second, the  *)
(* third or none answers, ticks 0 s or 15 s apart over 45 s.                *)

MaxSpanServers == 90

ServerLines == { Gga(<<"1">>, <<"0", "7">>), ValidRmc }

SecondAndThirdAnswer(ts2, ts3) == <<None, Some(ts2), Some(ts3)>>
ThirdAnswers(ts3) == <<None, None, Some(ts3)>>

ServerAnswers ==
    { AllFail,
      FirstAnswers(UnixTime(2024, 1, 1, 11, 59, 55)),
      SecondAndThirdAnswer(UnixTime(2024, 1, 1, 11, 59, 56), UnixTime(2024, 1, 1, 11, 59, 58)),
      ThirdAnswers(UnixTime(2024, 1, 1, 11, 59, 58)) }

ServerSteps == {Sec(15)}

InitServers ==
    \E serial \in BOOLEAN :
        Startup(Local(2024, 1, 1, 11, 59, 57), MonoStart, NoAlarm, serial, TRUE)

ReadServers == \E line \in ServerLines : ReadLine(line)
TickServers == \E resp \in ServerAnswers : Tick(SysNow, resp)
WaitServers == \E d \in ServerSteps : Advance(d, MaxSpanServers)

NextServers == ReadServers \/ TickServers \/ WaitServers

SpecServers == InitServers /\ [][NextServers]_vars

-----------------------------------------------------------------------------
(* Claims checked under SpecServers *)

Answering(r) == {i \in 1..Len(NTP_SERVERS) : r[i] # None}
FirstOf(S) == CHOOSE i \in S : \A j \in S : i <= j
Offline == <<"System time (offline)">>

\* C13: one invocation of query_ntp_once contacts the servers in list order,
\* each once, up to and including the first that answers and none after it;
\* it gives that server's time and name and records the name as
\* last_ntp_server_used.  When no server answers it has contacted all of
\* them, gives no time and the offline status, and leaves
\* last_ntp_server_used as it was.
C13_FirstAnsweringServer ==
    [][(IsTick(branch') /\ ntp_resp' # None)
        => LET r == Val(ntp_resp')
           IN  IF Answering(r) = {}
               THEN /\ ntp_tried' = Some(NTP_SERVERS)
                    /\ last_ntp_server_used' = last_ntp_server_used
                    /\ last_time_source' = Offline
                    /\ branch' \in {"ntp_fail", "ntp_fail_first"}
               ELSE LET k == FirstOf(Answering(r))
                    IN  /\ ntp_tried' = Some(SubSeq(NTP_SERVERS, 1, k))
                        /\ last_ntp_server_used' = Some(NTP_SERVERS[k])
                        /\ last_time_source' = <<"NTP: ", NTP_SERVERS[k]>>
                        /\ display_time' =
                             Some(Sec(Val(r[k]) - UNIX_2000) - Sec(5 * 3600))]_vars

\* every server fails after the second one had answered an earlier query
C13_Witness ==
    /\ branch = "ntp_fail" /\ ntp_resp = Some(AllFail)
    /\ ntp_tried = Some(NTP_SERVERS)
    /\ last_ntp_server_used = Some("time.google.com")

NetworkLabels == {Offline} \cup {<<"NTP: ", NTP_SERVERS[i]>> : i \in 1..Len(NTP_SERVERS)}

\* C16: as long as no line was received, every tick gives a displayed time,
\* no tick is driven by GPS, and from the first tick on the label is
\* "NTP: <server>" or "System time (offline)".
C16_AbsentStream ==
    (raw = <<>> /\ ticked) =>
        /\ display_time # None
        /\ ~have_gps
        /\ IsTick(branch) => branch \in {"ntp_ok", "ntp_fail", "ntp_fail_first", "throttled"}
        /\ last_time_source \in NetworkLabels

\* no serial port, a tick inside the throttle window after the third server answered
C16_Witness ==
    /\ ~gps_serial /\ raw = <<>> /\ ticked
    /\ branch = "throttled" /\ elapsed > 0
    /\ last_time_source = <<"NTP: ", "time.cloudflare.com">>

\* C17: a tick with have_gps false, a server having answered before and at
\* most 30 s gone since the last query, makes no query, advances the
\* displayed time by the elapsed time and leaves the label, last_ntp_query
\* and last_ntp_server_used alone.
C17_ThrottleWindowFrame ==
    [][(/\ IsTick(branch') /\ ~have_gps'
        /\ last_ntp_server_used # None
        /\ mono - last_ntp_query <= Sec(30))
        => (/\ ntp_tried' = None
            /\ display_time' = Some(Val(display_time) + (mono - last_monotonic))
            /\ last_time_source' = last_time_source
            /\ last_ntp_query' = last_ntp_query
            /\ last_ntp_server_used' = last_ntp_server_used)]_vars

\* a tick exactly 30 s after the last query
C17_Witness ==
    /\ branch = "throttled" /\ ~have_gps
    /\ last_ntp_server_used # None
    /\ mono - last_ntp_query = Sec(30)
    /\ elapsed = Sec(15)

\* C18: a tick with have_gps true makes no query and leaves last_ntp_query
\* and last_ntp_server_used alone; a tick that queries has have_gps false.
C18_GpsPriority ==
    [][IsTick(branch')
        => (/\ have_gps' => (/\ ntp_tried' = None
                             /\ last_ntp_query' = last_ntp_query
                             /\ last_ntp_server_used' = last_ntp_server_used)
            /\ ntp_tried' # None => ~have_gps')]_vars

\* a GPS tick while no server has answered yet, so that a query would be due
C18_Witness ==
    /\ IsTick(branch) /\ have_gps
    /\ ntp_tried = None
    /\ last_ntp_server_used = None /\ last_ntp_query = 0

-----------------------------------------------------------------------------
(* Specification of the receiver's figures: satellites-in-view sentences    *)
(* with signal values in any slot and any order, fix-quality sentences with *)
(* signed numbers, fix-type sentences, and ticks between them.              *)

MaxSpanSignal == 2

\* a sentence that ends after its first signal value
GsvShort(s1) == SubSeq(Gsv(s1, E, E, E), 1, 8)

SignalLines ==
    { Gsv30,
      Gsv(E, <<"2", "5">>, <<"4", "0">>, E),
      Gsv(<<"x">>, E, E, <<"1", "2">>),
      GsvShort(<<"3", "5">>),
      Gsv(E, E, E, <<"4", "5", "\r", "\n">>),
      Gga(<<"-", "1">>, <<"-", "3">>),
      Gga(<<"2">>, <<"0", "7">>),
      Gsa(<<"2">>),
      Gsa(<<"9">>) }

InitSignal == Startup(SysNow, MonoStart, NoAlarm, TRUE, TRUE)

ReadSignal == \E line \in SignalLines : ReadLine(line)
TickSignal == Tick(SysNow, AllFail)
WaitSignal == Advance(Sec(1), MaxSpanSignal)

NextSignal == ReadSignal \/ TickSignal \/ WaitSignal

SpecSignal == InitSignal /\ [][NextSignal]_vars

-----------------------------------------------------------------------------
(* Claims checked under SpecSignal *)

SignalSlots == {7, 11, 15, 19}
PresentSignals(line) ==
    {DigitsValue(line[k + 1]) : k \in {j \in SignalSlots : FieldIsNumber(line, j)}}
Largest(S) == CHOOSE x \in S : \A y \in S : y <= x

\* C14: no step lowers best_snr, and after a satellites-in-view sentence it
\* is the largest of its previous value and the numeric signal values present
\* in slots 7, 11, 15 and 19 of the sentence, in whatever order sentences
\* come.
C14_SignalHighWaterMark ==
    [][/\ best_snr' >= best_snr
       /\ (branch' = "read" /\ IsKind(raw', TagGPGSV))
            => best_snr' = Largest({best_snr} \cup PresentSignals(strip(raw')))]_vars

\* a sentence with a lower value arrives after a higher one was kept
C14_Witness ==
    /\ branch = "read" /\ raw = Gsv(<<"x">>, E, E, <<"1", "2">>)
    /\ best_snr = 40
    /\ ticked

\* C15 (as stated): in every state fix_quality >= 0, satellites_used >= 0 and
\* fix_type is one of NO FIX, 2D FIX, 3D FIX.
C15_FixStateRanges ==
    /\ fix_quality >= 0
    /\ satellites_used >= 0
    /\ fix_type \in {"NO FIX", "2D FIX", "3D FIX"}

-----------------------------------------------------------------------------
(* Specification of the alarm's configuration: no receiver, no server, an   *)
(* alarm at 08:00 read from the alarm file, a displayed time that starts at *)
(* 06:59:59.5 and glides in half-second ticks, and a web client that posts  *)
(* new alarm times while the loop runs.                                     *)

MaxSpanAlarm == 3

Form(h, m) == [hour |-> h, minute |-> m]

AlarmForms == { Form(<<"7">>, <<"3", "0">>), Form(<<"9">>, <<"1", "5">>) }

InitAlarm ==
    Startup(Local(2024, 1, 1, 11, 59, 59) + 1, MonoStart, AlarmAt(8, 0), FALSE, TRUE)

TickAlarm == Tick(SysNow, AllFail)
WaitAlarm == Advance(1, MaxSpanAlarm)
PostHour == \E form \in AlarmForms : SetAlarmHour(form)
PostMinute == SetAlarmMinute

NextAlarm == TickAlarm \/ WaitAlarm \/ PostHour \/ PostMinute

SpecAlarm == InitAlarm /\ [][NextAlarm]_vars

-----------------------------------------------------------------------------
(* Claims checked under SpecAlarm *)

\* C20 (as stated): with set_alarm running beside the tick loop, the alarm
\* fires only for an hour and minute that were a completely set alarm at
\* some point, the one read at start-up or one a finished set_alarm left,
\* never for the new hour with the old minute.
C20_AlarmOnlyForConfiguredPair ==
    [][(IsTick(branch') /\ alarm_played')
        => AlarmAt(Hour(ShownNext), Minute(ShownNext)) \in alarm_configured]_vars

====
